---- MODULE Spec2Model ----
(***************************************************************************)
(* State-machine model of operation_log.py: the permission model (Profile), *)
(* the registry (ProfileManager), the audit store (LogManager, with its     *)
(* JSON file) and the permission-gated action (GenerateReportAction).       *)
(***************************************************************************)
EXTENDS Integers, Sequences, FiniteSets, TLC

(* ------------------------------ bounds --------------------------------- *)
\* OperationLog objects ever constructed (each gets a fresh uuid4).
MaxEntries == 2
\* Profile objects ever constructed by create_profile.
MaxProfiles == 2
\* Calls to add_unit_permission / add_global_permission.
MaxGrants == 2
\* OperationLog objects passed to add_log where the queries are exercised.
MaxQueryEntries == 3

(* ------------------------------ values --------------------------------- *)
\* Python's None (unit_id and details are Optional[str]).
None == "<None>"

\* class Operation(Enum): member names.
Operation ==
  {"CREATE_USER", "DELETE_USER", "EDIT_USER", "VIEW_REPORTS", "GENERATE_REPORTS", "MANAGE_UNIT"}

\* Operation.value: the string a member serialises to.
OperationValue(op) ==
  CASE op = "CREATE_USER" -> "create_user"
    [] op = "DELETE_USER" -> "delete_user"
    [] op = "EDIT_USER" -> "edit_user"
    [] op = "VIEW_REPORTS" -> "view_reports"
    [] op = "GENERATE_REPORTS" -> "generate_reports"
    [] op = "MANAGE_UNIT" -> "manage_unit"

\* Operation(value): lookup of a member by its value.
OperationOf(v) == CHOOSE op \in Operation : OperationValue(op) = v

\* datetime.isoformat() and datetime.fromisoformat(): a datetime is its
\* instant t, its ISO-8601 text is the tagged value <<"iso", t>>.
isoformat(t) == <<"iso", t>>
fromisoformat(s) == s[2]

\* Inputs the callers draw from.
\* create_profile's arguments (name, base_role, operator_code), as in main.
ProfileArgs ==
  {<<"admin1", "administrator", "ADM001">>, <<"admin2", "administrator", "ADM002">>}
RegUnitIds == {"UNIT1"}
UnitNames == {"Marketing", "Sales"}
\* Strings passed as unit ids; the empty string is a str like any other.
UnitIds == {"", "UNIT1", "UNIT2"}
\* unit_id arguments: a unit id, or None when the argument is left out.
UnitArgs == UnitIds \cup {None}
GrantUnitIds == {"", "UNIT1"}
GrantOps == {"GENERATE_REPORTS", "VIEW_REPORTS"}
ExecUnitArgs == {None, "UNIT1"}
\* Timestamps, and (operator_code, unit_id) pairs, of the entries a caller
\* passes to add_log where the queries are exercised.
Times == {0, 1, 2}
QueryLogArgs == {<<"ADM001", "UNIT1">>, <<"ADM002", None>>}
Threads == {1, 2}
\* The reference behaviour is single-threaded: one caller.
Callers == {1}

\* Exceptions: type and str(e).
NoExc == [type |-> "None", msg |-> ""]
PermissionErrorExc ==
  [type |-> "PermissionError", msg |-> "Profile does not have permission to generate reports"]
\* open()/write()/close() failing in save_logs.
OSErrorExc == [type |-> "OSError", msg |-> "[Errno 28] No space left on device"]
\* print() failing in the action body (sys.stdout closed).
BodyFaultExc == [type |-> "ValueError", msg |-> "I/O operation on closed file."]

\* self.unit_permissions[unit_id] for a key the dict does not hold.
KeyErrorExc == [type |-> "KeyError", msg |-> "unit_id"]

\* Python truthiness of a unit_id argument: None and "" are falsy.
Truthy(unit_id) == unit_id /= None /\ unit_id /= ""

IsPrefix(s, t) == Len(s) <= Len(t) /\ SubSeq(t, 1, Len(s)) = s

(* ------------------------------ state ---------------------------------- *)
VARIABLES
  heap,      \* the Profile objects constructed so far, by object identity 1..Len
  profiles,  \* ProfileManager.profiles: name -> Profile object
  units,     \* ProfileManager.units: unit id -> Unit
  grants,    \* number of grant calls made
  logs,      \* LogManager.logs
  file,      \* the file at LogManager.log_file_path
  nextId,    \* number of OperationLog objects constructed
  call       \* per thread: the call in progress and its position

vars == <<heap, profiles, units, grants, logs, file, nextId, call>>

\* An empty Python dict.
EmptyDict == [k \in {} |-> None]

\* Profile.__init__
NewProfile(name, base_role, operator_code) ==
  [name |-> name, base_role |-> base_role, operator_code |-> operator_code,
   unit_permissions |-> EmptyDict, global_permissions |-> {}]

\* A thread that is in no call.
IdleCall ==
  [pc |-> "idle", op |-> "none", profile |-> 0, unit_id |-> None,
   status |-> "", details |-> None, caught |-> NoExc,
   result |-> "none", exc |-> NoExc,
   n0 |-> 0, allowed |-> "unknown", ran |-> FALSE, fault |-> FALSE,
   wfail |-> FALSE, mine |-> <<>>, args |-> <<>>, value |-> <<>>, seen |-> {},
   site |-> 0]

\* State after LogManager("operation_logs.json") and ProfileManager(log_manager)
\* are constructed with no log file present: load_logs leaves logs empty.
Init ==
  /\ heap = <<>>
  /\ profiles = EmptyDict
  /\ units = EmptyDict
  /\ grants = 0
  /\ logs = <<>>
  /\ file = [kind |-> "absent", data |-> <<>>]
  /\ nextId = 0
  /\ call = [t \in Threads |-> IdleCall]

(* ------------------------- permission model ---------------------------- *)
\* can_perform with the unit lookup done before the global check.
can_perform_UnitFirst(prof, operation, unit_id) ==
  IF Truthy(unit_id) /\ unit_id \in DOMAIN prof.unit_permissions
  THEN operation \in prof.unit_permissions[unit_id]
  ELSE operation \in prof.global_permissions

\* Profile.can_perform(operation, unit_id=None)
can_perform(prof, operation, unit_id) ==
  IF operation \in prof.global_permissions THEN TRUE
  ELSE IF Truthy(unit_id) /\ unit_id \in DOMAIN prof.unit_permissions
       THEN operation \in prof.unit_permissions[unit_id]
       ELSE FALSE

\* add_unit_permission that takes the operation out of the unit's set when
\* it is already there.
WithUnitPermission_Toggle(perms, unit_id, operation) ==
  LET had == IF unit_id \in DOMAIN perms THEN perms[unit_id] ELSE {}
  IN [u \in DOMAIN perms \cup {unit_id} |->
        IF u = unit_id
        THEN (IF operation \in had THEN had \ {operation} ELSE had \cup {operation})
        ELSE perms[u]]

\* The unit_permissions dict after add_unit_permission(unit_id, operation).
WithUnitPermission(perms, unit_id, operation) ==
  LET had == IF unit_id \in DOMAIN perms THEN perms[unit_id] ELSE {}
  IN [u \in DOMAIN perms \cup {unit_id} |->
        IF u = unit_id THEN had \cup {operation} ELSE perms[u]]

\* Profile.add_unit_permission(unit_id, operation), on Profile object p.
add_unit_permission(t, p, unit_id, operation) ==
  /\ call[t].pc = "idle"
  /\ grants < MaxGrants
  /\ p \in 1..Len(heap)
  /\ heap' = [heap EXCEPT ![p].unit_permissions =
                WithUnitPermission(@, unit_id, operation)]
  /\ grants' = grants + 1
  /\ UNCHANGED <<profiles, units, logs, file, nextId, call>>

\* The global_permissions set after add_global_permission(operation).
WithGlobalPermission(perms, operation) == perms \cup {operation}

\* Profile.add_global_permission(operation), on Profile object p.
add_global_permission(t, p, operation) ==
  /\ call[t].pc = "idle"
  /\ grants < MaxGrants
  /\ p \in 1..Len(heap)
  /\ heap' = [heap EXCEPT ![p].global_permissions =
                WithGlobalPermission(@, operation)]
  /\ grants' = grants + 1
  /\ UNCHANGED <<profiles, units, logs, file, nextId, call>>

(* ------------------------------ registry ------------------------------- *)
\* A dict after d[key] = value.
SetItem(d, key, value) ==
  [k \in DOMAIN d \cup {key} |-> IF k = key THEN value ELSE d[k]]

\* ProfileManager.create_profile(name, base_role, operator_code)
create_profile(t, name, base_role, operator_code) ==
  /\ call[t].pc = "idle"
  /\ Len(heap) < MaxProfiles
  /\ heap' = Append(heap, NewProfile(name, base_role, operator_code))
  /\ profiles' = SetItem(profiles, name, Len(heap) + 1)
  /\ UNCHANGED <<units, grants, logs, file, nextId, call>>

\* ProfileManager.add_unit(unit_id, name)
add_unit(t, unit_id, name) ==
  /\ call[t].pc = "idle"
  /\ units' = SetItem(units, unit_id, [id |-> unit_id, name |-> name])
  /\ UNCHANGED <<heap, profiles, grants, logs, file, nextId, call>>

\* ProfileManager.get_profile(name): the Profile object, 0 for Python's None.
get_profile(name) == IF name \in DOMAIN profiles THEN profiles[name] ELSE 0

(* ----------------------------- audit store ----------------------------- *)
\* OperationLog.to_dict
to_dict(log) ==
  [id |-> log.id, operator_code |-> log.operator_code,
   operator_role |-> log.operator_role,
   operation |-> OperationValue(log.operation),
   unit_id |-> log.unit_id, timestamp |-> isoformat(log.timestamp),
   status |-> log.status, details |-> log.details]

\* from_dict with the operation left as the string read from the file.
from_dict_RawOperation(d) ==
  [id |-> d.id, operator_code |-> d.operator_code,
   operator_role |-> d.operator_role,
   operation |-> d.operation,
   unit_id |-> d.unit_id, timestamp |-> fromisoformat(d.timestamp),
   status |-> d.status, details |-> d.details]

\* The OperationLog that load_logs builds from one object of the file.
from_dict(d) ==
  [id |-> d.id, operator_code |-> d.operator_code,
   operator_role |-> d.operator_role,
   operation |-> OperationOf(d.operation),
   unit_id |-> d.unit_id, timestamp |-> fromisoformat(d.timestamp),
   status |-> d.status, details |-> d.details]

\* save_logs writing the logs as they were before the latest append.
SavedFile_Stale(ls) ==
  [kind |-> "json", data |-> [i \in 1..(Len(ls) - 1) |-> to_dict(ls[i])]]

\* What save_logs leaves in the file once json.dump and the close succeeded.
SavedFile(ls) == [kind |-> "json", data |-> [i \in 1..Len(ls) |-> to_dict(ls[i])]]

\* The file after open(path, 'w') truncated it, and after a write that failed
\* part-way: a proper prefix of a JSON document, which json.load rejects.
TruncatedFile == [kind |-> "partial", data |-> <<>>]

\* self.logs after load_logs ran on file f with self.logs = ls before: a
\* missing file empties logs; a file that does not parse raises out of
\* load_logs and leaves logs as they were.
LoadedLogs(f, ls) ==
  CASE f.kind = "absent" -> <<>>
    [] f.kind = "json" -> [i \in 1..Len(f.data) |-> from_dict(f.data[i])]
    [] f.kind = "partial" -> ls

\* LogManager.load_logs
load_logs(t) ==
  /\ call[t].pc = "idle"
  /\ logs' = LoadedLogs(file, logs)
  /\ UNCHANGED <<heap, profiles, units, grants, file, nextId, call>>

(* ---------------------------- gated action ----------------------------- *)
\* GenerateReportAction.required_operation
required_operation == "GENERATE_REPORTS"

\* can_execute asking for an operation other than the action's own.
can_execute_WrongOperation(prof, unit_id) == can_perform(prof, "VIEW_REPORTS", unit_id)

\* PermissionedAction.can_execute
can_execute(prof, unit_id) == can_perform(prof, required_operation, unit_id)

\* Raise with a failed storage write swallowed: the call returns normally.
Raise_SwallowOSError(c, e) ==
  IF e.type = "OSError"
  THEN [c EXCEPT !.pc = "done", !.result = "returned"]
  ELSE IF c.op = "execute" /\ c.caught = NoExc
       THEN [c EXCEPT !.caught = e, !.status = "ERROR", !.details = e.msg, !.pc = "log"]
       ELSE [c EXCEPT !.pc = "done", !.result = "raised", !.exc = e]

\* Raise with the exception's type name logged in place of str(e).
Raise_TypeAsDetails(c, e) ==
  IF c.op = "execute" /\ c.caught = NoExc
  THEN [c EXCEPT !.caught = e, !.status = "ERROR", !.details = e.type, !.pc = "log"]
  ELSE [c EXCEPT !.pc = "done", !.result = "raised", !.exc = e]

\* The call record after exception e is raised at the call's position: inside
\* execute's try block the except clause catches it and logs ERROR with str(e);
\* inside the except clause, or in a direct add_log, it leaves the call.
Raise(c, e) ==
  IF c.op = "execute" /\ c.caught = NoExc
  THEN [c EXCEPT !.caught = e, !.status = "ERROR", !.details = e.msg, !.pc = "log"]
  ELSE [c EXCEPT !.pc = "done", !.result = "raised", !.exc = e]

\* AfterLog with the raise after the FAILED entry left out.
AfterLog_NoRaise(c) ==
  IF c.op = "execute" /\ c.status = "ERROR"
  THEN [c EXCEPT !.pc = "done", !.result = "raised", !.exc = c.caught]
  ELSE [c EXCEPT !.pc = "done", !.result = "returned"]

\* The call record after log_operation (or a direct add_log) returned: the
\* denial path raises PermissionError, the success path falls off the end of
\* execute, and the except clause re-raises the exception it caught.
AfterLog(c) ==
  CASE c.op = "add_log" -> [c EXCEPT !.pc = "done", !.result = "returned"]
    [] c.op = "execute" /\ c.status = "FAILED" -> Raise(c, PermissionErrorExc)
    [] c.op = "execute" /\ c.status = "SUCCESS" -> [c EXCEPT !.pc = "done", !.result = "returned"]
    [] c.op = "execute" /\ c.status = "ERROR" ->
         [c EXCEPT !.pc = "done", !.result = "raised", !.exc = c.caught]

\* AfterCheck with the body run before the denial is acted on.
AfterCheck_BodyFirst(c, allowed) ==
  [c EXCEPT !.allowed = IF allowed THEN "yes" ELSE "no", !.pc = "body"]

\* The call record after can_execute returned allowed: a denial starts
\* log_operation(..., "FAILED", "Insufficient permissions"), otherwise the
\* body runs.
AfterCheck(c, allowed) ==
  IF ~allowed
  THEN [c EXCEPT !.allowed = "no", !.status = "FAILED",
                 !.details = "Insufficient permissions", !.pc = "log"]
  ELSE [c EXCEPT !.allowed = "yes", !.pc = "body"]

\* The call record after the body (the print) ran: on normal completion
\* log_operation(..., "SUCCESS", "Report generated successfully") starts.
AfterBody(c, ok) ==
  IF ok
  THEN [c EXCEPT !.ran = TRUE, !.status = "SUCCESS",
                 !.details = "Report generated successfully", !.pc = "log"]
  ELSE Raise([c EXCEPT !.ran = TRUE, !.fault = TRUE], BodyFaultExc)

\* report_action.execute(profile, unit_id) is called.
Execute(t, p, unit_id) ==
  /\ call[t].pc = "idle"
  /\ p \in 1..Len(heap)
  /\ nextId < MaxEntries
  /\ call' = [call EXCEPT ![t] =
       [IdleCall EXCEPT !.pc = "check", !.op = "execute", !.profile = p,
                        !.unit_id = unit_id, !.n0 = Len(logs)]]
  /\ UNCHANGED <<heap, profiles, units, grants, logs, file, nextId>>

\* execute, line 169: the permission check.
CheckPermission(t) ==
  /\ call[t].pc = "check"
  /\ call' = [call EXCEPT ![t] =
       AfterCheck(@, can_execute(heap[call[t].profile], call[t].unit_id))]
  /\ UNCHANGED <<heap, profiles, units, grants, logs, file, nextId>>

\* execute, line 173: the action body, which completes or raises.
Body(t) ==
  /\ call[t].pc = "body"
  /\ \E ok \in BOOLEAN : call' = [call EXCEPT ![t] = AfterBody(@, ok)]
  /\ UNCHANGED <<heap, profiles, units, grants, logs, file, nextId>>

\* str(uuid.uuid4()) for the n-th OperationLog constructed: fresh each time.
uuid4(n) == n

\* datetime.now() as read for the n-th OperationLog constructed: successive
\* readings of the clock increase.
datetime_now(n) == n

\* log_operation with the profile's role and operator code swapped.
NewLog_SwappedOperator(c, id, timestamp) ==
  [id |-> id, operator_code |-> heap[c.profile].base_role,
   operator_role |-> heap[c.profile].operator_code,
   operation |-> required_operation, unit_id |-> c.unit_id,
   timestamp |-> timestamp, status |-> c.status, details |-> c.details]

\* PermissionedAction.log_operation: the OperationLog it constructs.
NewLog(c, id, timestamp) ==
  [id |-> id, operator_code |-> heap[c.profile].operator_code,
   operator_role |-> heap[c.profile].base_role,
   operation |-> required_operation, unit_id |-> c.unit_id,
   timestamp |-> timestamp, status |-> c.status, details |-> c.details]

\* log_operation up to add_log's first line: the entry is constructed (fresh
\* uuid4, datetime.now()) and appended to logs; save_logs follows.
LogOperation(t) ==
  /\ call[t].pc = "log"
  /\ nextId < MaxEntries
  /\ nextId' = nextId + 1
  /\ logs' = Append(logs, NewLog(call[t], uuid4(nextId'), datetime_now(nextId')))
  /\ call' = [call EXCEPT ![t].pc = "open", ![t].mine = Append(@, nextId')]
  /\ UNCHANGED <<heap, profiles, units, grants, file>>

\* LogManager.add_log(log), called directly, up to its first line: the
\* entry the caller constructed is appended to logs; save_logs follows.
add_log(t, log) ==
  /\ call[t].pc = "idle"
  /\ nextId' = nextId + 1
  /\ logs' = Append(logs, log)
  /\ call' = [call EXCEPT ![t] =
       [IdleCall EXCEPT !.pc = "open", !.op = "add_log", !.n0 = Len(logs),
                        !.mine = <<log.id>>]]
  /\ UNCHANGED <<heap, profiles, units, grants, file>>

\* A caller constructs an OperationLog itself and passes it to add_log.
AddLog(t, operator_code) ==
  /\ nextId < MaxEntries
  /\ add_log(t,
       [id |-> uuid4(nextId + 1), operator_code |-> operator_code,
        operator_role |-> "administrator", operation |-> "VIEW_REPORTS",
        unit_id |-> None, timestamp |-> datetime_now(nextId + 1),
        status |-> "SUCCESS", details |-> None])

\* save_logs, line 72: open(path, 'w') truncates the file, or fails and
\* leaves it as it was.
SaveOpen(t) ==
  /\ call[t].pc = "open"
  /\ \/ /\ file' = TruncatedFile
        /\ call' = [call EXCEPT ![t].pc = "write"]
     \/ /\ file' = file
        /\ call' = [call EXCEPT ![t] = Raise([@ EXCEPT !.wfail = TRUE], OSErrorExc)]
  /\ UNCHANGED <<heap, profiles, units, grants, logs, nextId>>

\* save_logs, line 73: json.dump of the current logs and the close, or a
\* failure part-way that leaves a truncated file.
SaveWrite(t) ==
  /\ call[t].pc = "write"
  /\ \/ /\ file' = SavedFile(logs)
        /\ call' = [call EXCEPT ![t] = AfterLog(@)]
     \/ /\ file' = TruncatedFile
        /\ call' = [call EXCEPT ![t] = Raise([@ EXCEPT !.wfail = TRUE], OSErrorExc)]
  /\ UNCHANGED <<heap, profiles, units, grants, logs, nextId>>

\* save_logs, line 73, first half: the list [log.to_dict() for log in
\* self.logs] is built from the logs as they are when the comprehension ends,
\* and json.dump writes its text into the buffer of the file object (the
\* text of a few entries is smaller than the buffer, so no byte reaches the
\* file yet).
SaveDump(t) ==
  /\ call[t].pc = "write"
  /\ call' = [call EXCEPT ![t].pc = "flush", ![t].value = SavedFile(logs).data]
  /\ UNCHANGED <<heap, profiles, units, grants, logs, file, nextId>>

\* The files that can result when a file object opened with 'w' writes the
\* text of buf from offset 0 into file f. Where f already holds the longer
\* text of a list that buf is a proper prefix of, the tail of that text stays
\* behind the closing bracket of buf. A file left part-way by another write
\* holds at most the text of f.data, so it is either covered or not.
Overlay(buf, f) ==
  CASE f.kind = "json" ->
         IF IsPrefix(buf, f.data) /\ Len(buf) < Len(f.data)
         THEN {[kind |-> "partial", data |-> f.data]}
         ELSE {[kind |-> "json", data |-> buf]}
    [] f.kind = "partial" ->
         IF Len(buf) < Len(f.data)
         THEN {[kind |-> "json", data |-> buf], f}
         ELSE {[kind |-> "json", data |-> buf]}
    [] f.kind = "absent" -> {[kind |-> "json", data |-> buf]}

\* save_logs, line 73, second half: leaving the with block closes the file
\* object, which writes its buffer to the file; or the write fails part-way.
SaveFlush(t) ==
  /\ call[t].pc = "flush"
  /\ \/ /\ file' \in Overlay(call[t].value, file)
        /\ call' = [call EXCEPT ![t] = AfterLog(@)]
     \/ /\ file' = [kind |-> "partial",
                    data |-> IF Len(file.data) > Len(call[t].value)
                             THEN file.data ELSE call[t].value]
        /\ call' = [call EXCEPT ![t] = Raise([@ EXCEPT !.wfail = TRUE], OSErrorExc)]
  /\ UNCHANGED <<heap, profiles, units, grants, logs, nextId>>

\* The caller takes the call's outcome and goes on.
Return(t) ==
  /\ call[t].pc = "done"
  /\ call' = [call EXCEPT ![t] = IdleCall]
  /\ UNCHANGED <<heap, profiles, units, grants, logs, file, nextId>>

(* ------------------- grant and decision, step by step ------------------ *)
\* One thread runs add_unit_permission and another can_perform on the same
\* Profile object. Each dict or set operation is one step of the
\* interpreter; the threads interleave between steps.

\* The test of line 100 answering "absent" whatever the dict holds.
NeedsCreate_Always(perms, unit_id) == TRUE

\* add_unit_permission, line 100: `unit_id not in self.unit_permissions`.
NeedsCreate(perms, unit_id) == unit_id \notin DOMAIN perms

\* The state of Profile object p as of the last grant that completed: while
\* a grant on p is between its steps, the state it found when called.
Committed(p) ==
  LET granting == {g \in Threads : /\ call[g].op = "add_unit_permission"
                                  /\ call[g].pc \in {"g_create", "g_add"}
                                  /\ call[g].profile = p}
  IN IF granting /= {}
     THEN call[CHOOSE g \in granting : TRUE].value[1]
     ELSE heap[p]

YesNo(b) == IF b THEN "yes" ELSE "no"

\* add_unit_permission is called and evaluates the test of line 100.
GrantBegin(t, p, unit_id, operation) ==
  /\ call[t].pc = "idle"
  /\ grants < MaxGrants
  /\ p \in 1..Len(heap)
  /\ grants' = grants + 1
  /\ call' = [call EXCEPT ![t] =
       [IdleCall EXCEPT
          !.pc = IF NeedsCreate(heap[p].unit_permissions, unit_id)
                 THEN "g_create" ELSE "g_add",
          !.op = "add_unit_permission", !.profile = p, !.unit_id = unit_id,
          !.args = <<operation>>, !.value = <<heap[p]>>]]
  /\ UNCHANGED <<heap, profiles, units, logs, file, nextId>>

\* add_unit_permission, line 101: self.unit_permissions[unit_id] = set()
GrantCreate(t) ==
  /\ call[t].pc = "g_create"
  /\ heap' = [heap EXCEPT ![call[t].profile].unit_permissions =
                SetItem(@, call[t].unit_id, {})]
  /\ call' = [call EXCEPT ![t].pc = "g_add"]
  /\ UNCHANGED <<profiles, units, grants, logs, file, nextId>>

\* add_unit_permission, line 102: self.unit_permissions[unit_id].add(operation)
\* and the return. Every can_perform call in progress on the same object
\* records the answer the completed grant gives it.
GrantAdd(t) ==
  /\ call[t].pc = "g_add"
  /\ LET p == call[t].profile
         after == [heap[p] EXCEPT !.unit_permissions[call[t].unit_id] =
                     @ \cup {call[t].args[1]}]
     IN /\ heap' = [heap EXCEPT ![p] = after]
        /\ call' = [u \in Threads |->
             IF u = t
             THEN [call[t] EXCEPT !.pc = "done", !.result = "returned"]
             ELSE IF /\ call[u].op = "can_perform"
                     /\ call[u].pc \notin {"idle", "done"}
                     /\ call[u].profile = p
                  THEN [call[u] EXCEPT !.seen =
                          @ \cup {YesNo(can_perform(after, call[u].args[1],
                                                    call[u].unit_id))}]
                  ELSE call[u]]
  /\ UNCHANGED <<profiles, units, grants, logs, file, nextId>>

\* can_perform(operation, unit_id) is called on Profile object p.
DecideBegin(t, p, operation, unit_id) ==
  /\ call[t].pc = "idle"
  /\ p \in 1..Len(heap)
  /\ call' = [call EXCEPT ![t] =
       [IdleCall EXCEPT
          !.pc = "d_global", !.op = "can_perform", !.profile = p,
          !.unit_id = unit_id, !.args = <<operation>>,
          !.seen = {YesNo(can_perform(Committed(p), operation, unit_id))}]]
  /\ UNCHANGED <<heap, profiles, units, grants, logs, file, nextId>>

\* can_perform returns b from the return statement at the given line.
Decided(c, b, line) ==
  [c EXCEPT !.pc = "done", !.result = "returned", !.allowed = YesNo(b),
            !.site = line]

\* can_perform, lines 108-109: `operation in self.global_permissions`.
DecideGlobal(t) ==
  /\ call[t].pc = "d_global"
  /\ call' = [call EXCEPT ![t] =
       IF call[t].args[1] \in heap[call[t].profile].global_permissions
       THEN Decided(@, TRUE, 109)
       ELSE [@ EXCEPT !.pc = "d_key"]]
  /\ UNCHANGED <<heap, profiles, units, grants, logs, file, nextId>>

\* can_perform, line 111: `unit_id and unit_id in self.unit_permissions`.
DecideKey(t) ==
  /\ call[t].pc = "d_key"
  /\ call' = [call EXCEPT ![t] =
       IF /\ Truthy(call[t].unit_id)
          /\ call[t].unit_id \in DOMAIN heap[call[t].profile].unit_permissions
       THEN [@ EXCEPT !.pc = "d_lookup"]
       ELSE Decided(@, FALSE, 114)]
  /\ UNCHANGED <<heap, profiles, units, grants, logs, file, nextId>>

\* can_perform, line 113: self.unit_permissions[unit_id], a KeyError when
\* the key is not in the dict.
DecideLookup(t) ==
  /\ call[t].pc = "d_lookup"
  /\ call' = [call EXCEPT ![t] =
       IF call[t].unit_id \in DOMAIN heap[call[t].profile].unit_permissions
       THEN [@ EXCEPT !.pc = "d_member"]
       ELSE [@ EXCEPT !.pc = "done", !.result = "raised", !.exc = KeyErrorExc]]
  /\ UNCHANGED <<heap, profiles, units, grants, logs, file, nextId>>

\* can_perform, line 113: `operation in` the set looked up, and the return.
\* The set under a key is the object the lookup returned: no step of
\* add_unit_permission replaces the set of a key the dict holds.
DecideMember(t) ==
  /\ call[t].pc = "d_member"
  /\ call' = [call EXCEPT ![t] =
       Decided(@, call[t].args[1] \in
                    heap[call[t].profile].unit_permissions[call[t].unit_id],
               113)]
  /\ UNCHANGED <<heap, profiles, units, grants, logs, file, nextId>>

(* ------------------------------- queries ------------------------------- *)
\* Each query is a list comprehension [log for log in self.logs if ...]: the
\* entries that pass the test, in list order.
\* LogManager.get_logs_by_operator
get_logs_by_operator(ls, operator_code) ==
  SelectSeq(ls, LAMBDA log : log.operator_code = operator_code)

\* LogManager.get_logs_by_unit
get_logs_by_unit(ls, unit_id) ==
  SelectSeq(ls, LAMBDA log : log.unit_id = unit_id)

\* get_logs_by_timerange with the end bound exclusive.
get_logs_by_timerange_EndExclusive(ls, start, end) ==
  SelectSeq(ls, LAMBDA log : start <= log.timestamp /\ log.timestamp < end)

\* LogManager.get_logs_by_timerange
get_logs_by_timerange(ls, start, end) ==
  SelectSeq(ls, LAMBDA log : start <= log.timestamp /\ log.timestamp <= end)

\* A query is called and returns its list; logs are only read.
Query(t, name, args, answer) ==
  /\ call[t].pc = "idle"
  /\ call' = [call EXCEPT ![t] =
       [IdleCall EXCEPT !.pc = "done", !.op = name, !.n0 = Len(logs),
                        !.args = args, !.value = answer, !.result = "returned"]]
  /\ UNCHANGED <<heap, profiles, units, grants, logs, file, nextId>>

QueryByOperator(t, operator_code) ==
  Query(t, "get_logs_by_operator", <<operator_code>>,
        get_logs_by_operator(logs, operator_code))

QueryByUnit(t, unit_id) ==
  Query(t, "get_logs_by_unit", <<unit_id>>, get_logs_by_unit(logs, unit_id))

QueryByTimeRange(t, start, end) ==
  Query(t, "get_logs_by_timerange", <<start, end>>,
        get_logs_by_timerange(logs, start, end))

(* --------------------------- specification ----------------------------- *)
\* The program under one caller that registers each profile name once, as
\* main does, grants on UNIT1 and calls the gated action and the store.
Next ==
  \E t \in Callers :
    \/ \E a \in ProfileArgs :
         a[1] \notin DOMAIN profiles /\ create_profile(t, a[1], a[2], a[3])
    \/ add_unit(t, "UNIT1", "Marketing")
    \/ \E p \in 1..Len(heap), o \in GrantOps : add_unit_permission(t, p, "UNIT1", o)
    \/ \E p \in 1..Len(heap) : add_global_permission(t, p, "GENERATE_REPORTS")
    \/ load_logs(t)
    \/ \E p \in 1..Len(heap), u \in ExecUnitArgs : Execute(t, p, u)
    \/ CheckPermission(t)
    \/ Body(t)
    \/ LogOperation(t)
    \/ AddLog(t, "ADM001")
    \/ SaveOpen(t)
    \/ SaveWrite(t)
    \/ Return(t)

Spec == Init /\ [][Next]_vars

\* The registry and the permission model alone, under every registration
\* (repeated names and unit ids included) and every grant.
NextPermissions ==
  \E t \in Callers :
    \/ \E a \in ProfileArgs : create_profile(t, a[1], a[2], a[3])
    \/ \E u \in RegUnitIds, n \in UnitNames : add_unit(t, u, n)
    \/ \E p \in 1..Len(heap), u \in GrantUnitIds, o \in GrantOps :
         add_unit_permission(t, p, u, o)
    \/ \E p \in 1..Len(heap), o \in GrantOps : add_global_permission(t, p, o)

SpecPermissions == Init /\ [][NextPermissions]_vars

\* Thread 1 registers profiles and grants, thread 2 decides; the steps of a
\* unit-scoped grant and of a decision interleave freely.
NextGrantRace ==
  \/ \E a \in ProfileArgs :
       /\ a[1] \notin DOMAIN profiles
       /\ call[2].pc = "idle"
       /\ create_profile(1, a[1], a[2], a[3])
  \/ \E p \in 1..Len(heap) :
       /\ call[2].pc = "idle"
       /\ add_global_permission(1, p, required_operation)
  \/ \E p \in 1..Len(heap), o \in GrantOps : GrantBegin(1, p, "UNIT1", o)
  \/ GrantCreate(1)
  \/ GrantAdd(1)
  \/ \E p \in 1..Len(heap), o \in GrantOps, u \in ExecUnitArgs :
       DecideBegin(2, p, o, u)
  \/ DecideGlobal(2)
  \/ DecideKey(2)
  \/ DecideLookup(2)
  \/ DecideMember(2)
  \/ \E t \in Threads : Return(t)

SpecGrantRace == Init /\ [][NextGrantRace]_vars

\* Two threads call execute on the same action, and so on the same
\* LogManager; the profiles are registered and granted before either runs.
\* save_logs is taken in its three steps: open, dump, close.
NextConcurrent ==
  \/ \E a \in ProfileArgs :
       /\ a[1] \notin DOMAIN profiles
       /\ \A u \in Threads : call[u].pc = "idle"
       /\ create_profile(1, a[1], a[2], a[3])
  \/ \E p \in 1..Len(heap) :
       /\ \A u \in Threads : call[u].pc = "idle"
       /\ add_global_permission(1, p, required_operation)
  \/ \E t \in Threads :
       \/ \E p \in 1..Len(heap) : Execute(t, p, None)
       \/ CheckPermission(t)
       \/ Body(t)
       \/ LogOperation(t)
       \/ SaveOpen(t)
       \/ SaveDump(t)
       \/ SaveFlush(t)
       \/ Return(t)

SpecConcurrent == Init /\ [][NextConcurrent]_vars

\* The audit store alone: a caller passes entries with timestamps of its
\* choosing to add_log and runs the three queries.
NextQueries ==
  \E t \in Callers :
    \/ \E a \in QueryLogArgs, ts \in Times :
         /\ nextId < MaxQueryEntries
         /\ add_log(t,
              [id |-> uuid4(nextId + 1), operator_code |-> a[1],
               operator_role |-> "administrator",
               operation |-> required_operation, unit_id |-> a[2],
               timestamp |-> ts, status |-> "SUCCESS", details |-> None])
    \/ SaveOpen(t)
    \/ SaveWrite(t)
    \/ Return(t)
    \/ \E a \in QueryLogArgs : QueryByOperator(t, a[1])
    \/ \E a \in QueryLogArgs : QueryByUnit(t, a[2])
    \/ \E start \in Times, end \in Times : QueryByTimeRange(t, start, end)

SpecQueries == Init /\ [][NextQueries]_vars

(* ------------------------------- claims -------------------------------- *)
\* A call to execute that has reached its caller.
ExecuteDone(t) == call[t].op = "execute" /\ call[t].pc = "done"

\* The entries logs gained since the call of thread t began.
Appended(t) == SubSeq(logs, call[t].n0 + 1, Len(logs))

\* C1: every call to execute adds exactly one entry to the log, whether the
\* permission is denied, the body raises or the call succeeds (stated for the
\* calls during which no storage write failed).
C1_ExactlyOneEntry ==
  \A t \in Threads :
    (ExecuteDone(t) /\ ~call[t].wfail) => Len(logs) = call[t].n0 + 1

\* The first entry of a denied call is FAILED / "Insufficient permissions".
DeniedEntry(t) ==
  /\ Len(logs) > call[t].n0
  /\ logs[call[t].n0 + 1].status = "FAILED"
  /\ logs[call[t].n0 + 1].details = "Insufficient permissions"

\* C2 as stated: a denied execute appends a FAILED entry with details
\* "Insufficient permissions" and a permission-denied error reaches the caller.
C2_DeniedRaisesPermissionError ==
  \A t \in Threads :
    (ExecuteDone(t) /\ call[t].allowed = "no") =>
      /\ DeniedEntry(t)
      /\ call[t].result = "raised"
      /\ call[t].exc.type = "PermissionError"

\* C2 as amended: a denied execute appends a FAILED entry with details
\* "Insufficient permissions"; the permission-denied error reaches the caller
\* when no storage write failed during the call, and the storage error
\* reaches the caller when one did.
C2_DeniedRaises ==
  \A t \in Threads :
    (ExecuteDone(t) /\ call[t].allowed = "no") =>
      /\ DeniedEntry(t)
      /\ call[t].result = "raised"
      /\ call[t].exc.type = IF call[t].wfail THEN "OSError" ELSE "PermissionError"

\* A denied call has reached its caller with the permission-denied error.
C2_Witness ==
  \E t \in Threads :
    /\ ExecuteDone(t) /\ call[t].allowed = "no" /\ ~call[t].wfail
    /\ call[t].exc = PermissionErrorExc

\* C3: a denied execution never invokes the action body: at no point of a
\* call whose permission check failed has the body run.
C3_DeniedNeverRunsBody ==
  \A t \in Threads : call[t].allowed = "no" => ~call[t].ran

\* A denied call has run to its end.
C3_Witness ==
  \E t \in Threads : ExecuteDone(t) /\ call[t].allowed = "no" /\ ~call[t].ran

\* The decision rule of the permission model: operation is granted globally,
\* or a unit is supplied and operation is granted for that unit.
Decide(prof, operation, unit_id) ==
  \/ operation \in prof.global_permissions
  \/ /\ unit_id /= None
     /\ unit_id \in DOMAIN prof.unit_permissions
     /\ operation \in prof.unit_permissions[unit_id]

\* C4: for every profile reachable by grants, every operation and every unit
\* argument (any string, or absent), can_perform is true exactly when the
\* operation is in the global set or the unit is supplied and the operation
\* is in the profile's set for that unit.
C4_DecisionRule ==
  \A p \in 1..Len(heap), o \in Operation, u \in UnitArgs :
    can_perform(heap[p], o, u) = Decide(heap[p], o, u)

\* C5: an operation granted globally is permitted for every unit argument: a
\* unit with grants, a unit without, and no unit.
C5_GlobalOverrides ==
  \A p \in 1..Len(heap), u \in UnitArgs :
    \A o \in heap[p].global_permissions : can_perform(heap[p], o, u)

\* A profile holds a global grant next to a unit-scoped grant of another
\* operation.
C5_Witness ==
  \E p \in 1..Len(heap) :
    \E o \in heap[p].global_permissions, u \in DOMAIN heap[p].unit_permissions :
      Truthy(u) /\ o \notin heap[p].unit_permissions[u]

\* C6: create_profile and add_unit fail on a name or unit id that is already
\* registered (the inserting step is never taken for such a key), and what
\* is registered under a key stays registered under it.
C6_DuplicateKeyRejected ==
  [][/\ \A a \in ProfileArgs :
          a[1] \in DOMAIN profiles => ~create_profile(1, a[1], a[2], a[3])
     /\ \A u \in RegUnitIds, n \in UnitNames :
          u \in DOMAIN units => ~add_unit(1, u, n)
     /\ \A n \in DOMAIN profiles :
          n \in DOMAIN profiles' /\ profiles'[n] = profiles[n]
     /\ \A u \in DOMAIN units :
          u \in DOMAIN units' /\ units'[u] = units[u]]_vars

\* Every entry the call of thread t appended is in the persisted file.
Persisted(t) ==
  /\ call[t].mine /= <<>>
  /\ file.kind = "json"
  /\ \A k \in 1..Len(call[t].mine) :
       \E i \in 1..Len(file.data) :
         /\ file.data[i].id = call[t].mine[k]
         /\ file.data[i] = to_dict(logs[call[t].n0 + k])

\* C7 as stated: once execute has returned or raised to its caller, the
\* invocation's audit entry is in the persisted log file.
C7_LoggedBeforeOutcome ==
  \A t \in Threads : ExecuteDone(t) => Persisted(t)

\* C7 as amended: once execute has returned or raised to its caller after a
\* call during which no storage write failed, the invocation's audit entries
\* are in the persisted log file; a call that returns normally is such a call.
C7_LoggedBeforeOutcomeUnlessWriteFailed ==
  \A t \in Threads :
    ExecuteDone(t) =>
      /\ ~call[t].wfail => Persisted(t)
      /\ call[t].result = "returned" => ~call[t].wfail

\* A call has returned to its caller with every storage write done and its
\* entries in the file.
C7_Witness ==
  \E t \in Threads :
    /\ ExecuteDone(t) /\ ~call[t].wfail /\ Persisted(t)
    /\ call[t].result = "returned"

\* C8: when a storage write of the audit entry fails, execute does not report
\* success and add_log does not return normally: the call ends with the
\* storage error raised to the caller.
C8_WriteFailureRaises ==
  \A t \in Threads :
    (call[t].pc = "done" /\ call[t].wfail) =>
      call[t].result = "raised" /\ call[t].exc.type = "OSError"

\* A permitted call whose body completed has ended after its write failed.
C8_Witness ==
  \E t \in Threads :
    /\ ExecuteDone(t) /\ call[t].wfail
    /\ call[t].allowed = "yes" /\ ~call[t].fault

\* The one entry of a call whose body raised is ERROR with the fault's message.
FaultEntry(t) ==
  /\ Len(logs) = call[t].n0 + 1
  /\ logs[call[t].n0 + 1].status = "ERROR"
  /\ logs[call[t].n0 + 1].details = BodyFaultExc.msg

\* C9 as stated: when the body raises a fault, execute appends an ERROR entry
\* whose details are the fault's message and the same fault reaches the
\* caller.
C9_FaultLoggedAndPropagated ==
  \A t \in Threads :
    (ExecuteDone(t) /\ call[t].fault) =>
      /\ FaultEntry(t)
      /\ call[t].result = "raised"
      /\ call[t].exc = BodyFaultExc

\* C9 as amended: when the body raises a fault, execute appends an ERROR
\* entry whose details are the fault's message; the same fault reaches the
\* caller when the storage write of that entry succeeds, and the storage
\* error reaches the caller when it fails.
C9_FaultLoggedAndPropagatedUnlessWriteFailed ==
  \A t \in Threads :
    (ExecuteDone(t) /\ call[t].fault) =>
      /\ FaultEntry(t)
      /\ call[t].result = "raised"
      /\ call[t].exc = IF call[t].wfail THEN OSErrorExc ELSE BodyFaultExc

\* The body's fault has reached the caller of a call whose write succeeded.
C9_Witness ==
  \E t \in Threads :
    /\ ExecuteDone(t) /\ call[t].fault /\ ~call[t].wfail
    /\ call[t].exc = BodyFaultExc /\ Persisted(t)

\* C10: the log is append-only: across every step the log before is a prefix
\* of the log after.
C10_AppendOnly == [][IsPrefix(logs, logs')]_vars

GrantedForUnit(prof, unit_id, operation) ==
  [prof EXCEPT !.unit_permissions = WithUnitPermission(@, unit_id, operation)]
GrantedGlobal(prof, operation) ==
  [prof EXCEPT !.global_permissions = WithGlobalPermission(@, operation)]

\* Two profiles get the same answer from can_perform for every request.
SameDecisions(a, b) ==
  \A o \in Operation, u \in UnitArgs : can_perform(a, o, u) = can_perform(b, o, u)

\* C12: granting is idempotent: for every profile reachable by grants,
\* making the same unit-scoped or global grant twice leaves the permission
\* sets, and every decision, as making it once does.
C12_GrantIdempotent ==
  \A p \in 1..Len(heap), o \in GrantOps :
    /\ LET once == GrantedGlobal(heap[p], o)
       IN GrantedGlobal(once, o) = once /\ SameDecisions(GrantedGlobal(once, o), once)
    /\ \A u \in GrantUnitIds :
         LET once == GrantedForUnit(heap[p], u, o)
         IN /\ GrantedForUnit(once, u, o) = once
            /\ SameDecisions(GrantedForUnit(once, u, o), once)

\* Both grant calls made so far were the same unit-scoped grant: the profile
\* holds one operation for one unit and nothing else.
C12_Witness ==
  /\ grants = 2
  /\ \E p \in 1..Len(heap) :
       /\ heap[p].global_permissions = {}
       /\ \E u \in GrantUnitIds, o \in GrantOps :
            heap[p].unit_permissions = SetItem(EmptyDict, u, {o})
       /\ \A q \in 1..Len(heap) :
            q /= p => heap[q] = NewProfile(heap[q].name, heap[q].base_role,
                                           heap[q].operator_code)

\* A call that was permitted and whose body completed normally.
PermittedAndCompleted(t) ==
  ExecuteDone(t) /\ call[t].allowed = "yes" /\ call[t].ran /\ ~call[t].fault

\* The first entry of the call is SUCCESS and carries the call's unit, the
\* profile's operator code and role, and the action's required operation.
SuccessEntry(t) ==
  LET e == logs[call[t].n0 + 1]
      prof == heap[call[t].profile]
  IN /\ e.status = "SUCCESS"
     /\ e.unit_id = call[t].unit_id
     /\ e.operator_code = prof.operator_code
     /\ e.operator_role = prof.base_role
     /\ e.operation = required_operation

\* C13 as stated: when the profile is permitted and the body completes
\* normally, execute returns normally and the entry it appended is SUCCESS
\* with the call's unit, the profile's code and role and the required
\* operation.
C13_PermittedSucceeds ==
  \A t \in Threads :
    PermittedAndCompleted(t) =>
      /\ Len(logs) > call[t].n0 /\ SuccessEntry(t)
      /\ call[t].result = "returned"

\* C13 as amended: when the profile is permitted and the body completes
\* normally, execute appends a SUCCESS entry with the call's unit, the
\* profile's code and role and the required operation; it returns normally
\* when the storage write of that entry succeeds, and raises the storage
\* error when it fails.
C13_PermittedSucceedsUnlessWriteFailed ==
  \A t \in Threads :
    PermittedAndCompleted(t) =>
      /\ Len(logs) > call[t].n0 /\ SuccessEntry(t)
      /\ call[t].result = IF call[t].wfail THEN "raised" ELSE "returned"
      /\ call[t].wfail => call[t].exc = OSErrorExc
      /\ ~call[t].wfail => Len(logs) = call[t].n0 + 1

\* execute(profile, "UNIT1") has returned normally for a profile whose only
\* grant of the operation is for UNIT1, as admin1 in main.
C13_Witness ==
  \E t \in Threads :
    /\ PermittedAndCompleted(t) /\ call[t].result = "returned"
    /\ call[t].unit_id = "UNIT1"
    /\ required_operation \notin heap[call[t].profile].global_permissions
    /\ SuccessEntry(t)

\* The positions of logs whose timestamp t satisfies start <= t <= end.
InRange(start, end) ==
  {i \in 1..Len(logs) : start <= logs[i].timestamp /\ logs[i].timestamp <= end}

\* C14: get_logs_by_timerange(start, end) returns exactly the entries whose
\* timestamp lies in [start, end], both bounds included, in the log's order
\* (the k-th entry returned is the k-th such entry of the log), and the log
\* is as long as it was when the query was called.
C14_TimeRangeQuery ==
  \A t \in Threads :
    (call[t].op = "get_logs_by_timerange" /\ call[t].pc = "done") =>
      LET S == InRange(call[t].args[1], call[t].args[2])
      IN /\ Len(call[t].value) = Cardinality(S)
         /\ \A i \in S : call[t].value[Cardinality({j \in S : j <= i})] = logs[i]
         /\ Len(logs) = call[t].n0

\* With entries at t = 0, 1, 2 the query for [0, 1] has returned the first two.
C14_Witness ==
  \E t \in Threads :
    /\ call[t].op = "get_logs_by_timerange" /\ call[t].pc = "done"
    /\ call[t].args = <<0, 1>>
    /\ Len(logs) = 3
    /\ \A i \in 1..3 : logs[i].timestamp = i - 1
    /\ call[t].value = SubSeq(logs, 1, 2)

\* C15: each call to execute follows the gate's state machine: an ERROR (or
\* SUCCESS) entry is appended only by a call whose permission check passed
\* and whose body was run, and the entries one call appends all carry the
\* same status (stated for the calls during which no storage write failed).
C15_GateStateMachine ==
  \A t \in Threads :
    (call[t].op = "execute" /\ ~call[t].wfail) =>
      \A k \in 1..Len(call[t].mine) :
        LET e == logs[call[t].n0 + k]
        IN /\ e.status \in {"SUCCESS", "ERROR"} =>
                (call[t].allowed = "yes" /\ call[t].ran)
           /\ e.status = logs[call[t].n0 + 1].status

\* C16: a can_perform call that runs while add_unit_permission is between
\* its steps on the same profile never fails, and returns the answer of the
\* profile as some completed grant left it: the answer before the grant
\* (the state the call found committed when it began) or the answer after a
\* grant that completed while the call was running.
C16_NoPartialGrantSeen ==
  \A t \in Threads :
    (call[t].op = "can_perform" /\ call[t].pc = "done") =>
      /\ call[t].result = "returned"
      /\ call[t].exc = NoExc
      /\ call[t].allowed \in call[t].seen

\* A decision that found the unit's key present and read its set has
\* returned while the grant that created that set has not yet added the
\* operation.
C16_Witness ==
  \E d \in Threads, g \in Threads :
    /\ call[d].op = "can_perform" /\ call[d].pc = "done" /\ call[d].site = 113
    /\ call[g].op = "add_unit_permission" /\ call[g].pc = "g_add"
    /\ call[g].profile = call[d].profile
    /\ call[g].unit_id = call[d].unit_id
    /\ call[g].args = call[d].args
    /\ call[g].unit_id \notin DOMAIN call[g].value[1].unit_permissions

\* C17: once two concurrent calls to execute on the same store have both
\* reached their callers, no storage write having failed, the persisted file
\* is a well-formed log that contains the entries of both.
C17_ConcurrentAppendsPersisted ==
  (\A t \in Threads : ExecuteDone(t) /\ ~call[t].wfail) =>
    /\ file.kind = "json"
    /\ \A t \in Threads : \A k \in 1..Len(call[t].mine) :
         \E i \in 1..Len(file.data) : file.data[i].id = call[t].mine[k]

\* C18: every SUCCESS entry that execute appends comes from a call whose
\* permission check found can_perform(required operation, unit) true for its
\* profile; and whatever grants and calls came before, each SUCCESS entry
\* for the action's operation in the log names an operator whose profile is
\* permitted that operation on the entry's unit.
C18_SuccessOnlyWhenPermitted ==
  /\ \A t \in Threads :
       call[t].op = "execute" =>
         \A k \in 1..Len(call[t].mine) :
           logs[call[t].n0 + k].status = "SUCCESS" =>
             /\ call[t].allowed = "yes"
             /\ can_perform(heap[call[t].profile], required_operation,
                            call[t].unit_id)
  /\ \A i \in 1..Len(logs) :
       (logs[i].status = "SUCCESS" /\ logs[i].operation = required_operation) =>
         \E p \in 1..Len(heap) :
           /\ heap[p].operator_code = logs[i].operator_code
           /\ can_perform(heap[p], required_operation, logs[i].unit_id)

\* A call for UNIT1 by a profile permitted through a unit-scoped grant only
\* has appended its SUCCESS entry and returned.
C18_Witness ==
  \E t \in Threads :
    /\ ExecuteDone(t) /\ call[t].result = "returned"
    /\ call[t].unit_id = "UNIT1"
    /\ required_operation \notin heap[call[t].profile].global_permissions
    /\ logs[Len(logs)].status = "SUCCESS"
    /\ logs[Len(logs)].id = call[t].mine[1]

\* C19: permissions are monotone: when the profile registered under a name
\* is permitted operation O on unit U, the profile get_profile returns for
\* that name is still permitted O on U after any step of the registry
\* (create_profile, add_unit) or grant.
C19_PermissionsMonotone ==
  [][\A n \in DOMAIN profiles, o \in Operation, u \in UnitIds \cup {None} :
       can_perform(heap[get_profile(n)], o, u) =>
         can_perform(heap'[get_profile(n)'], o, u)]_vars

\* C20: whenever no append is in progress (no thread is between add_log's
\* append and the end of save_logs), the in-memory log equals the contents of
\* the persisted file, a missing file counting as the empty log; this
\* includes the states after an append whose storage write failed.
C20_MemoryEqualsFile ==
  (\A t \in Threads : call[t].pc \notin {"open", "write", "flush"}) =>
    /\ file.kind /= "partial"
    /\ LoadedLogs(file, <<>>) = logs

====
